---------------------------- MODULE Spec2Model ----------------------------
(***************************************************************************)
(* Model of retirement-calculator-app.py: the bracket tax function         *)
(* calculate_tax and the year-by-year projection the script computes into  *)
(* the data frame df (salary, taxes, contribution, net worth, spending,    *)
(* investment income, rounding, and the detection of the "financial        *)
(* freedom" age).                                                          *)
(*                                                                         *)
(* Python floats are modelled by exact rational numbers, so a property of  *)
(* the model is a property of the formulas the script evaluates, free of   *)
(* float rounding.  The inputs are drawn from the ranges the               *)
(* st.number_input / st.slider widgets accept.                             *)
(***************************************************************************)
EXTENDS Integers, Sequences, FiniteSets, TLC

\* ------------------------------------------------------------------------
\* Bounds of the model
\* ------------------------------------------------------------------------

\* Longest horizon life_expectancy - age that is explored.
MaxHorizon == 3

\* The tax function is applied to the incomes k * 50000, k in 0..MaxGrid,
\* and to the incomes around every bracket edge.
MaxGrid == 12

\* ------------------------------------------------------------------------
\* Exact arithmetic standing for the float arithmetic of the script
\* ------------------------------------------------------------------------

Abs(x) == IF x < 0 THEN -x ELSE x

RECURSIVE GCD(_, _)
GCD(a, b) == IF b = 0 THEN a ELSE GCD(b, a % b)

\* A value is [w, n, d], standing for w + n/d with 0 <= n < d and n/d in
\* lowest terms, so that the whole part and the fraction each keep their own
\* range.  Mk normalises w + n/d for any integer n and d > 0.
Mk(w, n, d) ==
    LET r == n % d
        g == GCD(r, d)
    IN  [w |-> w + (n \div d), n |-> r \div g, d |-> d \div g]

\* The literal a/b, b # 0.
Rat(a, b) == IF b < 0 THEN Mk(0, -a, -b) ELSE Mk(0, a, b)

R(k) == [w |-> k, n |-> 0, d |-> 1]

Zero == R(0)

One == R(1)

\* float('inf'); its negation is -inf
Inf == [w |-> 1, n |-> 0, d |-> 0]

IsFinite(x) == x.d # 0

RNeg(x) == IF IsFinite(x) THEN Mk(-x.w, -x.n, x.d) ELSE [x EXCEPT !.w = -x.w]

RAdd(x, y) ==
    IF ~IsFinite(x) THEN x
    ELSE IF ~IsFinite(y) THEN y
    ELSE LET g == GCD(x.d, y.d)
             l == (x.d \div g) * y.d
         IN  Mk(x.w + y.w, x.n * (l \div x.d) + y.n * (l \div y.d), l)

RSub(x, y) == RAdd(x, RNeg(y))

\* k * (n/d) for an integer k
IntTimesFrac(k, n, d) ==
    LET g == GCD(Abs(k), d)
    IN  Mk(0, (k \div g) * n, d \div g)

\* (n1/d1) * (n2/d2), cross-reduced before multiplying
FracTimesFrac(n1, d1, n2, d2) ==
    LET g1 == GCD(n1, d2)
        g2 == GCD(n2, d1)
    IN  Mk(0, (n1 \div g1) * (n2 \div g2), (d1 \div g2) * (d2 \div g1))

\* Product of two finite values.
RMul(x, y) ==
    RAdd(RAdd(R(x.w * y.w), IntTimesFrac(x.w, y.n, y.d)),
         RAdd(IntTimesFrac(y.w, x.n, x.d), FracTimesFrac(x.n, x.d, y.n, y.d)))

\* x / k for an integer k # 0.
RDivInt(x, k) == RMul(x, Rat(1, k))

RLe(x, y) == RSub(y, x).w >= 0

RLt(x, y) == LET s == RSub(y, x) IN s.w > 0 \/ (s.w = 0 /\ s.n > 0)

RMin(x, y) == IF RLe(x, y) THEN x ELSE y

RECURSIVE RPow(_, _)
RPow(x, k) == IF k = 0 THEN One ELSE RMul(x, RPow(x, k - 1))

\* numpy's round(0): to the nearest integer, ties to the even one; then
\* astype(int).
RoundHalfEven(x) ==
    IF 2 * x.n < x.d THEN x.w
    ELSE IF 2 * x.n > x.d THEN x.w + 1
    ELSE IF x.w % 2 = 0 THEN x.w ELSE x.w + 1

sign(k) == IF k > 0 THEN 1 ELSE IF k < 0 THEN -1 ELSE 0

\* ------------------------------------------------------------------------
\* Tax configuration constants
\* ------------------------------------------------------------------------

TAX_BRACKETS ==
    [income |-> << <<R(0), R(11000)>>, <<R(11001), R(44725)>>,
                   <<R(44726), R(95375)>>, <<R(95376), R(182100)>>,
                   <<R(182101), R(231250)>>, <<R(231251), R(578125)>>,
                   <<R(578126), Inf>> >>,
     fica |-> << <<R(0), R(160000)>> >>,
     capital_gains |-> << <<R(0), R(40000)>>, <<R(40001), R(441450)>>,
                          <<R(441451), Inf>> >>]

TAX_RATES ==
    [income |-> <<Rat(10, 100), Rat(12, 100), Rat(22, 100), Rat(24, 100),
                  Rat(32, 100), Rat(35, 100), Rat(37, 100)>>,
     fica |-> <<Rat(765, 10000)>>,
     capital_gains |-> <<Rat(0, 100), Rat(15, 100), Rat(20, 100)>>]

DEDUCTIONS == [income |-> R(13850), fica |-> R(0), capital_gains |-> R(0)]

\* ------------------------------------------------------------------------
\* calculate_tax
\* ------------------------------------------------------------------------

\* The loop of calculate_tax from bracket i (1-based) on, with the running
\* tax and remaining_income.
RECURSIVE TaxLoop(_, _, _, _, _)
TaxLoop(income, tax_type, i, tax, remaining_income) ==
    IF i > Len(TAX_BRACKETS[tax_type]) THEN tax
    ELSE IF RLe(remaining_income, Zero) THEN tax
    ELSE LET min_income == TAX_BRACKETS[tax_type][i][1]
             max_income == TAX_BRACKETS[tax_type][i][2]
             rate == TAX_RATES[tax_type][i]
             deduction == DEDUCTIONS[tax_type]
             taxable_income ==
                 RSub(RMin(max_income, RSub(income, deduction)), min_income)
             tax2 == IF RLt(Zero, taxable_income)
                     THEN RAdd(tax, RMul(taxable_income, rate))
                     ELSE tax
         IN  TaxLoop(income, tax_type, i + 1, tax2,
                     RSub(remaining_income, RSub(max_income, min_income)))

\* calculate_tax with the test `if taxable_income > 0` dropped.
RECURSIVE TaxLoopUnguarded(_, _, _, _, _)
TaxLoopUnguarded(income, tax_type, i, tax, remaining_income) ==
    IF i > Len(TAX_BRACKETS[tax_type]) THEN tax
    ELSE IF RLe(remaining_income, Zero) THEN tax
    ELSE LET min_income == TAX_BRACKETS[tax_type][i][1]
             max_income == TAX_BRACKETS[tax_type][i][2]
             rate == TAX_RATES[tax_type][i]
             deduction == DEDUCTIONS[tax_type]
             taxable_income ==
                 RSub(RMin(max_income, RSub(income, deduction)), min_income)
         IN  TaxLoopUnguarded(income, tax_type, i + 1,
                              RAdd(tax, RMul(taxable_income, rate)),
                              RSub(remaining_income, RSub(max_income, min_income)))

calculate_tax_unguarded(income, tax_type) ==
    TaxLoopUnguarded(income, tax_type, 1, Zero, income)

calculate_tax(income, tax_type) == TaxLoop(income, tax_type, 1, Zero, income)

income_tax(income) == calculate_tax(income, "income")

fica_tax(income) == calculate_tax(income, "fica")

capital_gains_tax(income) == calculate_tax(income, "capital_gains")

\* ------------------------------------------------------------------------
\* State
\* ------------------------------------------------------------------------

VARIABLES
    \* the sidebar inputs (lines 103-192)
    age, initial_salary, savings_rate, current_savings, interest_on_debt,
    rate_of_return, withdrawal_rate, salary_growth, checkbox_state,
    other_income, life_expectancy,
    \* the data frame: column name -> sequence of the column's values
    df,
    \* the index of the net worth loop (Python's i, 0-based)
    i,
    \* the result of the sign-change detection and what is reported
    intersection_idx, intersection_year, investment_income_at_intersection,
    headline,
    \* the exception that ended the script run, "" when none
    raised,
    \* the position in the script
    pc,
    \* a pair of calls of one of the tax functions: arguments, category, results
    tx_pc, tx_a, tx_b, tx_type, tx_res_a, tx_res_b

inputs == <<age, initial_salary, savings_rate, current_savings,
            interest_on_debt, rate_of_return, withdrawal_rate, salary_growth,
            checkbox_state, other_income, life_expectancy>>

report == <<intersection_idx, intersection_year,
            investment_income_at_intersection, headline>>

txvars == <<tx_pc, tx_a, tx_b, tx_type, tx_res_a, tx_res_b>>

vars == <<inputs, df, i, report, raised, pc, txvars>>

\* ------------------------------------------------------------------------
\* The values the inputs are drawn from (all inside the widgets' ranges)
\* ------------------------------------------------------------------------

Ages == {30}

Salaries == {0, 20000, 52000}

SavingsRates == {Rat(0, 100), Rat(20, 100), Rat(50, 100)}

CurrentSavings == {-10000, 0, 80000, 190000}

DebtRates == {Rat(8, 100)}

ReturnRates == {Rat(0, 100), Rat(20, 100)}

WithdrawalRates == {Rat(35, 1000), Rat(10, 100)}

GrowthRates == {Rat(0, 100), Rat(40, 100)}

OtherIncomes == {0, 12000}

\* The incomes the tax functions are called with: a grid, and the values at
\* and next to every bracket edge, before and after the income deduction.
TaxIncomes ==
    {R(k * 50000) : k \in 0..MaxGrid}
    \cup {R(k) : k \in {1, 11000, 11001, 13850, 13851, 24850, 24851, 24852,
                       40000, 40001, 44725, 44726, 58575, 58576, 58577,
                       95375, 95376, 160000, 160001, 441450, 441451,
                       591975, 591976, 591977, 10000000}}
    \cup {Rat(22001, 2), Rat(49703, 2)}

\* ------------------------------------------------------------------------
\* The projection script
\* ------------------------------------------------------------------------

\* len(df) = life_expectancy - age
Horizon == life_expectancy - age

Rows == 1..Horizon

NoFrame == [c \in {} |-> <<>>]

\* df[name] = column (a new column, or an existing one replaced)
SetColumn(frame, name, column) ==
    [c \in DOMAIN frame \cup {name} |-> IF c = name THEN column ELSE frame[c]]

Init ==
    /\ age \in Ages
    /\ initial_salary \in Salaries
    /\ savings_rate \in SavingsRates
    /\ current_savings \in CurrentSavings
    /\ interest_on_debt \in DebtRates
    /\ rate_of_return \in ReturnRates
    /\ withdrawal_rate \in WithdrawalRates
    /\ salary_growth \in GrowthRates
    /\ checkbox_state \in BOOLEAN
    /\ other_income \in OtherIncomes
    /\ life_expectancy \in age..(age + MaxHorizon)
    /\ df = NoFrame
    /\ i = 0
    /\ intersection_idx = <<>>
    /\ intersection_year = 0
    /\ investment_income_at_intersection = 0
    /\ headline = ""
    /\ raised = ""
    /\ pc = "frame"
    /\ tx_pc = "idle"
    /\ tx_a = Zero
    /\ tx_b = Zero
    /\ tx_type = ""
    /\ tx_res_a = Zero
    /\ tx_res_b = Zero

\* df = pd.DataFrame({'Year': range(1, life_expectancy - age + 1)})
BuildFrame ==
    /\ pc = "frame"
    /\ df' = SetColumn(NoFrame, "Year", [y \in Rows |-> y])
    /\ pc' = "salary"
    /\ UNCHANGED <<inputs, i, report, raised, txvars>>

\* Line 204 without the factor (1/2).
diminishing_salary_no_half(y, start_year, total_years) ==
    IF total_years = 0
    THEN RMul(R(initial_salary), One)
    ELSE RMul(R(initial_salary),
              RPow(RSub(RAdd(One, salary_growth),
                        RDivInt(RMul(salary_growth, R(y - start_year)),
                                total_years)),
                   y - start_year))

\* Salary of year y with the "diminish" box checked.  With a one-year frame
\* total_years is 0, the base is 0/0 = NaN and NaN ** 0 is 1.0.
diminishing_salary(y, start_year, total_years) ==
    IF total_years = 0
    THEN RMul(R(initial_salary), One)
    ELSE RMul(R(initial_salary),
              RPow(RSub(RAdd(One, salary_growth),
                        RDivInt(RMul(RMul(salary_growth, Rat(1, 2)),
                                     R(y - start_year)),
                                total_years)),
                   y - start_year))

\* Salary of year y with the box unchecked.
compounding_salary(y) ==
    RMul(R(initial_salary),
         RPow(RSub(RAdd(One, salary_growth), RDivInt(salary_growth, y)), y - 1))

\* Lines 200-204.  df['Year'] is 1..len(df), so its min is 1 and its max
\* len(df); on an empty frame both are NaN and the column stays empty.
SalaryDiminishing ==
    /\ pc = "salary"
    /\ checkbox_state
    /\ LET start_year == 1
           end_year == Horizon
           total_years == end_year - start_year
       IN  df' = SetColumn(df, "Salary",
                   [y \in Rows |-> diminishing_salary(df["Year"][y], start_year,
                                                      total_years)])
    /\ pc' = "taxes"
    /\ UNCHANGED <<inputs, i, report, raised, txvars>>

SalaryCompounding ==
    /\ pc = "salary"
    /\ ~checkbox_state
    /\ df' = SetColumn(df, "Salary",
                [y \in Rows |-> compounding_salary(df["Year"][y])])
    /\ pc' = "taxes"
    /\ UNCHANGED <<inputs, i, report, raised, txvars>>

\* Lines 208-212: the tax, after-tax and contribution columns.
TaxColumns ==
    /\ pc = "taxes"
    /\ LET salary == df["Salary"]
           inc == [y \in Rows |-> income_tax(salary[y])]
           fica == [y \in Rows |-> fica_tax(salary[y])]
           total == [y \in Rows |-> RAdd(inc[y], fica[y])]
           after == [y \in Rows |-> RSub(salary[y], total[y])]
           contribution == [y \in Rows |-> RMul(after[y], savings_rate)]
       IN  df' = SetColumn(SetColumn(SetColumn(SetColumn(SetColumn(df,
                     "Income Tax", inc), "FICA Tax", fica),
                     "Total Annual Tax", total), "After Tax Income", after),
                     "Retirement Contribution", contribution)
    /\ pc' = "seed"
    /\ UNCHANGED <<inputs, i, report, raised, txvars>>

\* Lines 213-214 on a frame with at least one row.
NetWorthSeed ==
    /\ pc = "seed"
    /\ Horizon > 0
    /\ df' = SetColumn(df, "Net Worth",
                [y \in Rows |->
                    IF y = 1
                    THEN RAdd(df["Retirement Contribution"][1], R(current_savings))
                    ELSE Zero])
    /\ i' = 1
    /\ pc' = "loop"
    /\ UNCHANGED <<inputs, report, raised, txvars>>

\* Lines 213-214 on an empty frame: df.loc[0, 'Retirement Contribution']
\* raises KeyError and the run ends.
NetWorthSeedEmpty ==
    /\ pc = "seed"
    /\ Horizon = 0
    /\ df' = SetColumn(df, "Net Worth", <<>>)
    /\ raised' = "KeyError"
    /\ pc' = "crashed"
    /\ UNCHANGED <<inputs, i, report, txvars>>

\* Line 218 with interest_on_debt in the place of rate_of_return.
invest_growth_at_debt_rate(previous, contribution) ==
    RAdd(contribution, RMul(previous, RAdd(One, interest_on_debt)))

\* Line 220 with rate_of_return in the place of interest_on_debt.
debt_growth_at_return_rate(previous, contribution) ==
    RAdd(contribution, RMul(previous, RAdd(One, rate_of_return)))

\* Line 218: the new net worth after a year that ended at or above zero.
invest_growth(previous, contribution) ==
    RAdd(contribution, RMul(previous, RAdd(One, rate_of_return)))

\* Line 220: the new net worth after a year that ended below zero.
debt_growth(previous, contribution) ==
    RAdd(contribution, RMul(previous, RAdd(One, interest_on_debt)))

NetWorthInvest ==
    /\ pc = "loop"
    /\ i < Horizon
    /\ RLe(Zero, df["Net Worth"][i])
    /\ df' = [df EXCEPT !["Net Worth"][i + 1] =
                 invest_growth(df["Net Worth"][i],
                               df["Retirement Contribution"][i + 1])]
    /\ i' = i + 1
    /\ UNCHANGED <<inputs, report, raised, pc, txvars>>

NetWorthDebt ==
    /\ pc = "loop"
    /\ i < Horizon
    /\ ~RLe(Zero, df["Net Worth"][i])
    /\ df' = [df EXCEPT !["Net Worth"][i + 1] =
                 debt_growth(df["Net Worth"][i],
                             df["Retirement Contribution"][i + 1])]
    /\ i' = i + 1
    /\ UNCHANGED <<inputs, report, raised, pc, txvars>>

NetWorthLoopEnd ==
    /\ pc = "loop"
    /\ i >= Horizon
    /\ pc' = "derive"
    /\ UNCHANGED <<inputs, df, i, report, raised, txvars>>

\* Line 223
investment_income(net_worth) == RMul(net_worth, withdrawal_rate)

\* Lines 222-224
DerivedColumns ==
    /\ pc = "derive"
    /\ df' = SetColumn(SetColumn(SetColumn(df,
                "Spending",
                [y \in Rows |-> RSub(df["After Tax Income"][y],
                                     df["Retirement Contribution"][y])]),
                "Investment Income",
                [y \in Rows |-> investment_income(df["Net Worth"][y])]),
                "Age",
                [y \in Rows |-> df["Year"][y] + age])
    /\ pc' = "round"
    /\ UNCHANGED <<inputs, i, report, raised, txvars>>

IntColumns == {"Year", "Age"}

\* Line 226: df = df.round(0).astype(int)
RoundFrame ==
    /\ pc = "round"
    /\ df' = [c \in DOMAIN df |->
                [y \in Rows |-> IF c \in IntColumns THEN df[c][y]
                                ELSE RoundHalfEven(df[c][y])]]
    /\ pc' = "intersect"
    /\ UNCHANGED <<inputs, i, report, raised, txvars>>

\* Line 229
difference(frame) ==
    [y \in 1..Len(frame["Age"]) |->
        frame["Investment Income"][y] - frame["Spending"][y]]

\* Line 230: the 0-based positions k with sign(d[k+1]) # sign(d[k]).
sign_changes(d) ==
    LET changes(k) == sign(d[k + 2]) - sign(d[k + 1]) # 0
    IN  SelectSeq([k \in 1..(Len(d) - 1) |-> k - 1], changes)

FindIntersections ==
    /\ pc = "intersect"
    /\ intersection_idx' = sign_changes(difference(df))
    /\ pc' = "report"
    /\ UNCHANGED <<inputs, df, i, intersection_year,
                   investment_income_at_intersection, headline, raised, txvars>>

\* Lines 232-266: .iloc[intersection_idx[0] + 1] is row intersection_idx[0] + 2
\* of the 1-based columns.
ReportFreedom ==
    /\ pc = "report"
    /\ Len(intersection_idx) > 0
    /\ intersection_year' = df["Age"][intersection_idx[1] + 2]
    /\ investment_income_at_intersection' =
           df["Investment Income"][intersection_idx[1] + 2]
    /\ headline' = "Financial Freedom at age"
    /\ pc' = "cumulative"
    /\ UNCHANGED <<inputs, df, i, intersection_idx, raised, txvars>>

\* Lines 267-295
ReportNever ==
    /\ pc = "report"
    /\ Len(intersection_idx) = 0
    /\ headline' = "Investment Income is never enough to sustain spending"
    /\ pc' = "cumulative"
    /\ UNCHANGED <<inputs, df, i, intersection_idx, intersection_year,
                   investment_income_at_intersection, raised, txvars>>

RECURSIVE cumsum(_, _)
cumsum(column, y) ==
    IF y = 0 THEN 0 ELSE cumsum(column, y - 1) + column[y]

\* Line 303
CumulativeContributions ==
    /\ pc = "cumulative"
    /\ df' = SetColumn(df, "Cumulative Contributions",
                [y \in Rows |-> cumsum(df["Retirement Contribution"], y)])
    /\ pc' = "done"
    /\ UNCHANGED <<inputs, i, report, raised, txvars>>

Next ==
    \/ BuildFrame
    \/ SalaryDiminishing
    \/ SalaryCompounding
    \/ TaxColumns
    \/ NetWorthSeed
    \/ NetWorthSeedEmpty
    \/ NetWorthInvest
    \/ NetWorthDebt
    \/ NetWorthLoopEnd
    \/ DerivedColumns
    \/ RoundFrame
    \/ FindIntersections
    \/ ReportFreedom
    \/ ReportNever
    \/ CumulativeContributions

Spec == Init /\ [][Next]_vars

\* ------------------------------------------------------------------------
\* The tax functions applied to a pair of incomes
\* ------------------------------------------------------------------------

TaxInit ==
    /\ tx_pc = "call"
    /\ tx_a \in TaxIncomes
    /\ tx_b \in TaxIncomes
    /\ tx_type = ""
    /\ tx_res_a = Zero
    /\ tx_res_b = Zero
    /\ age = 30
    /\ initial_salary = 0
    /\ savings_rate = Zero
    /\ current_savings = 0
    /\ interest_on_debt = Zero
    /\ rate_of_return = Zero
    /\ withdrawal_rate = Zero
    /\ salary_growth = Zero
    /\ checkbox_state = FALSE
    /\ other_income = 0
    /\ life_expectancy = 30
    /\ df = NoFrame
    /\ i = 0
    /\ intersection_idx = <<>>
    /\ intersection_year = 0
    /\ investment_income_at_intersection = 0
    /\ headline = ""
    /\ raised = ""
    /\ pc = "idle"

CallIncomeTax ==
    /\ tx_pc = "call"
    /\ tx_type' = "income"
    /\ tx_res_a' = income_tax(tx_a)
    /\ tx_res_b' = income_tax(tx_b)
    /\ tx_pc' = "returned"
    /\ UNCHANGED <<inputs, df, i, report, raised, pc, tx_a, tx_b>>

CallFicaTax ==
    /\ tx_pc = "call"
    /\ tx_type' = "fica"
    /\ tx_res_a' = fica_tax(tx_a)
    /\ tx_res_b' = fica_tax(tx_b)
    /\ tx_pc' = "returned"
    /\ UNCHANGED <<inputs, df, i, report, raised, pc, tx_a, tx_b>>

CallCapitalGainsTax ==
    /\ tx_pc = "call"
    /\ tx_type' = "capital_gains"
    /\ tx_res_a' = capital_gains_tax(tx_a)
    /\ tx_res_b' = capital_gains_tax(tx_b)
    /\ tx_pc' = "returned"
    /\ UNCHANGED <<inputs, df, i, report, raised, pc, tx_a, tx_b>>

TaxNext ==
    \/ CallIncomeTax
    \/ CallFicaTax
    \/ CallCapitalGainsTax

TaxSpec == TaxInit /\ [][TaxNext]_vars

\* ------------------------------------------------------------------------
\* Properties of the tax functions (checked under TaxSpec)
\* ------------------------------------------------------------------------

\* C1: for every tax category and gross incomes 0 <= a <= b, the tax of a is
\* not negative and not above the tax of b.
C1_TaxNonNegativeMonotone ==
    tx_pc = "returned" =>
        /\ RLe(Zero, tx_res_a)
        /\ RLe(Zero, tx_res_b)
        /\ (RLe(tx_a, tx_b) => RLe(tx_res_a, tx_res_b))

\* C1's case: two incomes in different income brackets, both taxed.
C1_Witness ==
    /\ tx_pc = "returned"
    /\ tx_type = "income"
    /\ tx_a = R(50000)
    /\ tx_b = R(250000)
    /\ RLt(Zero, tx_res_a)
    /\ RLt(tx_res_a, tx_res_b)

\* taxable = max(0, gross - deduction[category])
TaxableBase(gross, tax_type) ==
    LET t == RSub(gross, DEDUCTIONS[tax_type])
    IN  IF RLe(Zero, t) THEN t ELSE Zero

\* Length of the part of [0, taxable) that lies in bracket k of the table.
BracketPart(tax_type, k, taxable) ==
    LET lo == TAX_BRACKETS[tax_type][k][1]
        hi == TAX_BRACKETS[tax_type][k][2]
        part == RSub(RMin(hi, taxable), lo)
    IN  IF RLe(Zero, part) THEN part ELSE Zero

RECURSIVE MarginalSum(_, _, _)
MarginalSum(tax_type, k, taxable) ==
    IF k = 0 THEN Zero
    ELSE RAdd(MarginalSum(tax_type, k - 1, taxable),
              RMul(BracketPart(tax_type, k, taxable), TAX_RATES[tax_type][k]))

RECURSIVE CoveredLength(_, _, _)
CoveredLength(tax_type, k, taxable) ==
    IF k = 0 THEN Zero
    ELSE RAdd(CoveredLength(tax_type, k - 1, taxable),
              BracketPart(tax_type, k, taxable))

\* C2: calculate_tax is the marginal-rate sum over contiguous brackets: it is
\* the sum of rate * (part of [0, taxable) inside the bracket), every unit of
\* taxable income up to the table's top edge lies in exactly one bracket, and
\* calculate_tax(50000, 'income') = 4118.
C2_MarginalRateSum ==
    tx_pc = "returned" =>
        LET taxable == TaxableBase(tx_a, tx_type)
            last == Len(TAX_BRACKETS[tx_type])
        IN  /\ tx_res_a = MarginalSum(tx_type, last, taxable)
            /\ CoveredLength(tx_type, last, taxable)
                   = RMin(taxable, TAX_BRACKETS[tx_type][last][2])
            /\ (tx_type = "income" /\ tx_a = R(50000) => tx_res_a = R(4118))

\* ------------------------------------------------------------------------
\* Properties of the projection (checked under Spec)
\* ------------------------------------------------------------------------

\* The frame holds unrounded values and the Net Worth column exists.
HasNetWorth == pc \in {"loop", "derive", "round"}

\* The frame holds the unrounded Salary column.
HasSalary == pc \in {"taxes", "seed", "loop", "derive", "round", "crashed"}

\* The script has reported.
Reported == pc \in {"cumulative", "done"}

\* Rows of the Net Worth column that have been computed.
NetWorthRows == IF pc = "loop" THEN i ELSE Horizon

\* C3: the first net worth is current_savings + the first contribution, and
\* after a year that ended at or above zero the net worth is
\* previous * (1 + rate_of_return) + the year's contribution.
C3_NetWorthInvestRecurrence ==
    HasNetWorth =>
        /\ df["Net Worth"][1] =
               RAdd(R(current_savings), df["Retirement Contribution"][1])
        /\ \A r \in 2..NetWorthRows :
               RLe(Zero, df["Net Worth"][r - 1]) =>
                   df["Net Worth"][r] =
                       RAdd(RMul(df["Net Worth"][r - 1],
                                 RAdd(One, rate_of_return)),
                            df["Retirement Contribution"][r])

\* C3's case: a positive net worth grew at a positive rate of return and a
\* positive contribution was added, for two years in a row.
C3_Witness ==
    /\ pc = "round"
    /\ Horizon >= 3
    /\ RLt(Zero, rate_of_return)
    /\ RLt(Zero, df["Net Worth"][1])
    /\ RLt(Zero, df["Retirement Contribution"][2])
    /\ RLt(RAdd(df["Net Worth"][2], df["Retirement Contribution"][3]),
           df["Net Worth"][3])

\* C4 as stated: after a year that ended below zero the net worth is
\* previous * (1 - interest_on_debt) + the year's contribution.
C4_DebtRateNegated ==
    HasNetWorth =>
        \A r \in 2..NetWorthRows :
            RLt(df["Net Worth"][r - 1], Zero) =>
                df["Net Worth"][r] =
                    RAdd(RMul(df["Net Worth"][r - 1],
                              RSub(One, interest_on_debt)),
                         df["Retirement Contribution"][r])

\* C4 as amended: after a year that ended below zero the net worth is
\* previous * (1 + interest_on_debt) + the year's contribution, and the
\* rate of return plays no part.
C4_DebtRateCompounds ==
    HasNetWorth =>
        \A r \in 2..NetWorthRows :
            RLt(df["Net Worth"][r - 1], Zero) =>
                df["Net Worth"][r] =
                    RAdd(RMul(df["Net Worth"][r - 1],
                              RAdd(One, interest_on_debt)),
                         df["Retirement Contribution"][r])

\* C4's case: a year ends in debt, the debt branch brings the next year back
\* to zero or above, and the year after that is computed too.
C4_Witness ==
    /\ pc = "round"
    /\ Horizon >= 3
    /\ RLt(Zero, interest_on_debt)
    /\ interest_on_debt # rate_of_return
    /\ RLt(df["Net Worth"][1], Zero)
    /\ RLe(Zero, df["Net Worth"][2])

\* C5: a reported financial freedom age is the smallest age of the timeline
\* at which investment income >= spending.
C5_ReportedAgeIsFirst ==
    (Reported /\ headline = "Financial Freedom at age") =>
        \E y \in Rows :
            /\ df["Age"][y] = intersection_year
            /\ df["Investment Income"][y] >= df["Spending"][y]
            /\ \A z \in 1..(y - 1) :
                   df["Investment Income"][z] < df["Spending"][z]

\* C6: "never enough" is reported exactly when no year of the timeline has
\* investment income >= spending.
C6_NeverIffNoYear ==
    Reported =>
        ((headline = "Investment Income is never enough to sustain spending")
            <=> (\A y \in Rows :
                    df["Investment Income"][y] < df["Spending"][y]))

\* C7: every year's investment income is net worth * withdrawal_rate +
\* other_income.
C7_OtherIncomeAdded ==
    pc = "round" =>
        \A y \in Rows :
            df["Investment Income"][y] =
                RAdd(RMul(df["Net Worth"][y], withdrawal_rate), R(other_income))

\* C8: with the box unchecked the salary of year N is
\* initial_salary * (1 + salary_growth)^(N-1).
C8_GeometricSalary ==
    (HasSalary /\ ~checkbox_state) =>
        \A y \in Rows :
            df["Salary"][y] =
                RMul(R(initial_salary), RPow(RAdd(One, salary_growth), y - 1))

\* C9 as stated: with the box checked the salary of year y is
\* initial_salary * (1 + salary_growth * (1 - (y-1)/totalYears)), the rate
\* falling from salary_growth at year 1 to 0 at the last year.
C9_LinearToZero ==
    (HasSalary /\ checkbox_state /\ Horizon >= 2) =>
        \A y \in Rows :
            df["Salary"][y] =
                RMul(R(initial_salary),
                     RAdd(One, RMul(salary_growth,
                                    RSub(One, Rat(y - 1, Horizon - 1)))))

\* C9 as amended: with the box checked and a horizon of at least two years,
\* the salary of year y is initial_salary * (1 + rate(y))^(y-1), where
\* rate(y) = salary_growth * (1 - (y-1)/(2*totalYears)) falls linearly from
\* salary_growth at year 1 to salary_growth/2 at the last year; so the salary
\* of year 1 is initial_salary and that of the last year is
\* initial_salary * (1 + salary_growth/2)^totalYears.
C9_LinearToHalf ==
    (HasSalary /\ checkbox_state /\ Horizon >= 2) =>
        /\ \A y \in Rows :
               df["Salary"][y] =
                   RMul(R(initial_salary),
                        RPow(RAdd(One,
                                  RMul(salary_growth,
                                       RSub(One, Rat(y - 1, 2 * (Horizon - 1))))),
                             y - 1))
        /\ df["Salary"][1] = R(initial_salary)
        /\ df["Salary"][Horizon] =
               RMul(R(initial_salary),
                    RPow(RAdd(One, RMul(salary_growth, Rat(1, 2))),
                         Horizon - 1))

\* C9's case: a checked box, a growing salary and at least three years.
C9_Witness ==
    /\ pc = "taxes"
    /\ checkbox_state
    /\ Horizon >= 3
    /\ initial_salary > 0
    /\ RLt(Zero, salary_growth)
    /\ RLt(df["Salary"][2], df["Salary"][3])

\* C10: with life_expectancy = age the run fails with InvalidConfiguration
\* before anything is computed, and in no other way.
C10_InvalidConfiguration ==
    Horizon <= 0 =>
        /\ pc # "done"
        /\ raised # "" => /\ raised = "InvalidConfiguration"
                          /\ DOMAIN df = {}

=============================================================================
